---- MODULE Spec2Model ----
(***************************************************************************)
(* Model of ChatbotService (chatbot.service.ts): the handleChat             *)
(* orchestration of one request, the product matcher (searchProducts /     *)
(* filterProducts) and the currency converter (convertCurrencies).         *)
(*                                                                         *)
(* JavaScript strings are sequences of one-character strings; JavaScript   *)
(* numbers are IEEE-754 doubles, modelled bit-exactly for the operands the *)
(* model draws (small natural numbers).                                    *)
(***************************************************************************)
EXTENDS Integers, Sequences, FiniteSets, TLC

\* ------------------------------------------------------------------ bounds

\* Longest query string the model draws.
MaxQueryLen == 3

\* Largest number of rows the catalog file holds.
MaxCatalog == 3

\* ----------------------------------------------------------------- strings

\* The characters query strings are drawn from: a lower-case letter, an
\* upper-case letter and a whitespace character.
QueryChars == {"a", "B", " "}

\* All strings over QueryChars of length at most MaxQueryLen.
Queries == UNION {[1..n -> QueryChars] : n \in 0..MaxQueryLen}

\* JavaScript values are records tagged with their type.
\* The value of a missing property or of a variable never assigned.
Undefined == [type |-> "undefined"]

\* JSON / JavaScript null.
Null == [type |-> "null"]

\* A string given by its characters.
Str(chars) == [type |-> "string", chars |-> chars]

\* A string the model never looks into (a content, a key, a currency code).
Text(t) == [type |-> "string", text |-> t]

\* A number holding the natural number n.
Num(n) == [type |-> "number", nat |-> n]

\* String.prototype.toLowerCase on one character.
LowerChar(c) == IF c = "A" THEN "a" ELSE IF c = "B" THEN "b" ELSE c

\* String.prototype.toLowerCase.
toLowerCase(s) == [i \in 1..Len(s) |-> LowerChar(s[i])]

\* The character class \s.
IsWhitespace(c) == c = " "

\* Index of the first non-whitespace character of s at or after i
\* (Len(s) + 1 when there is none): the end of the run the regexp \s+ matches.
RECURSIVE SkipWhitespace(_, _)
SkipWhitespace(s, i) ==
    IF i > Len(s) \/ ~IsWhitespace(s[i]) THEN i ELSE SkipWhitespace(s, i + 1)

\* String.prototype.split(/\s+/) from position i on, cur being the piece under
\* construction and acc the pieces already closed.  A separator at the start
\* or the end of the string closes an empty piece, as in JavaScript.
RECURSIVE SplitFrom(_, _, _, _)
SplitFrom(s, i, cur, acc) ==
    IF i > Len(s) THEN Append(acc, cur)
    ELSE IF IsWhitespace(s[i])
         THEN SplitFrom(s, SkipWhitespace(s, i), <<>>, Append(acc, cur))
         ELSE SplitFrom(s, i + 1, Append(cur, s[i]), acc)

\* query.split(/\s+/)
split(s) == SplitFrom(s, 1, <<>>, <<>>)

\* String.prototype.includes: term occurs in text as a contiguous substring.
includes(text, term) ==
    \E i \in 0..(Len(text) - Len(term)) : SubSeq(text, i + 1, i + Len(term)) = term

\* ----------------------------------------------------------------- catalog

\* The rows the catalog file may hold (csv-parser yields one object per row,
\* keyed by the header's column names).
Products ==
    { [displayTitle |-> <<"a">>,      embeddingText |-> <<"a">>, productType |-> <<"a">>],
      [displayTitle |-> <<"B">>,      embeddingText |-> <<"b">>, productType |-> <<"B", "b">>],
      [displayTitle |-> <<"a", "b">>, embeddingText |-> <<>>,    productType |-> <<"b">>] }

\* Every catalog of at most MaxCatalog rows.
Catalogs == UNION {[1..n -> Products] : n \in 0..MaxCatalog}

\* `${product.displayTitle} ${product.embeddingText} ${product.productType}`.toLowerCase()
combinedText(product) ==
    toLowerCase(product.displayTitle \o <<" ">> \o product.embeddingText
                \o <<" ">> \o product.productType)

\* query.toLowerCase().split(/\s+/)
queryTerms(query) == split(toLowerCase(query))

\* The filter callback: queryTerms.some(term => combinedText.includes(term))
productMatches(product, query) ==
    LET terms == queryTerms(query)
    IN  \E k \in 1..Len(terms) : includes(combinedText(product), terms[k])

\* Array.prototype.filter with the callback above, order kept.
RECURSIVE filterProducts(_, _)
filterProducts(products, query) ==
    IF products = <<>> THEN <<>>
    ELSE (IF productMatches(Head(products), query) THEN <<Head(products)>> ELSE <<>>)
         \o filterProducts(Tail(products), query)

\* Array.prototype.slice(0, n)
sliceFromStart(arr, n) == SubSeq(arr, 1, IF Len(arr) < n THEN Len(arr) ELSE n)

\* ----------------------------------------------------------------- numbers

\* Width of the significand of a JavaScript number (IEEE-754 binary64).
MantissaBits == 53

\* The result of arithmetic on undefined, and of 0/0.
NaN == [kind |-> "NaN"]

\* The number 0.
Zero == [kind |-> "zero"]

\* A positive finite number: bits is the significand, most significant bit
\* first, MantissaBits long with bits[1] = 1; its last bit weighs 2^exp.
Finite(bits, exp) == [kind |-> "finite", bits |-> bits, exp |-> exp]

\* The binary digits of the natural number n, most significant first (<<>> for 0).
RECURSIVE NatBits(_)
NatBits(n) == IF n = 0 THEN <<>> ELSE Append(NatBits(n \div 2), n % 2)

\* A sequence of n zero bits.
ZeroBits(n) == [i \in 1..n |-> 0]

\* bits + 1 on a bit string of fixed length, as <<carry out, sum>>: the
\* last 0 becomes 1 and the 1s after it become 0.
Increment(bits) ==
    LET n == Len(bits)
    IN  IF \A i \in 1..n : bits[i] = 1 THEN <<1, ZeroBits(n)>>
        ELSE LET k == CHOOSE i \in 1..n :
                          bits[i] = 0 /\ \A j \in (i + 1)..n : bits[j] = 1
             IN  <<0, [i \in 1..n |-> IF i < k THEN bits[i]
                                      ELSE IF i = k THEN 1 ELSE 0]>>

\* Round-to-nearest, ties-to-even of the exact value whose leading bits are
\* `bits` (at least MantissaBits long, bits[1] = 1, last bit weighing 2^exp),
\* sticky telling whether non-zero bits follow them.
RoundToDouble(bits, exp, sticky) ==
    LET n     == Len(bits)
        keep  == SubSeq(bits, 1, MantissaBits)
        e     == exp + (n - MantissaBits)
        guard == IF n > MantissaBits THEN bits[MantissaBits + 1] ELSE 0
        rest  == sticky \/ \E i \in (MantissaBits + 2)..n : bits[i] = 1
        up    == guard = 1 /\ (rest \/ keep[MantissaBits] = 1)
        inc   == Increment(keep)
    IN  IF ~up THEN Finite(keep, e)
        ELSE IF inc[1] = 1 THEN Finite(<<1>> \o ZeroBits(MantissaBits - 1), e + 1)
        ELSE Finite(inc[2], e)

\* The JavaScript number whose value is the natural number n (exact for the
\* values the model draws).
FromNat(n) ==
    IF n = 0 THEN Zero
    ELSE LET b == NatBits(n)
         IN  Finite(b \o ZeroBits(MantissaBits - Len(b)), Len(b) - MantissaBits)

\* 2^i modulo d, by repeated squaring.
RECURSIVE Pow2Mod(_, _)
Pow2Mod(i, d) ==
    IF i = 0 THEN 1 % d
    ELSE LET h == Pow2Mod(i \div 2, d)
         IN  IF i % 2 = 0 THEN (h * h) % d ELSE (2 * ((h * h) % d)) % d

\* The remainder of the long division n / d after i fractional quotient bits:
\* (n * 2^i) modulo d.
RemainderAfter(n, d, i) == ((n % d) * Pow2Mod(i, d)) % d

\* The i-th fractional bit (weighing 2^-i) of the exact quotient n / d.
FractionBit(n, d, i) == (2 * RemainderAfter(n, d, i - 1)) \div d

\* The double nearest to n / d, for natural n and positive natural d: the
\* operator / on two numbers holding these values.  The quotient's leading
\* MantissaBits + 1 bits (the last one is the guard bit) are its integer part
\* followed by fractional bits, and the remainder tells whether more follow.
DivideNat(n, d) ==
    IF n = 0 THEN Zero
    ELSE LET ip    == NatBits(n \div d)
             first == IF ip # <<>> THEN 1
                      ELSE CHOOSE i \in 1..(Len(NatBits(d)) + 1) :
                               /\ FractionBit(n, d, i) = 1
                               /\ \A j \in 1..(i - 1) : FractionBit(n, d, j) = 0
             last  == IF ip # <<>> THEN MantissaBits + 1 - Len(ip)
                      ELSE first + MantissaBits
             frac  == [j \in 1..(last - first + 1) |-> FractionBit(n, d, first + j - 1)]
         IN  RoundToDouble(ip \o frac, 0 - last, RemainderAfter(n, d, last) # 0)

\* Width of the pieces a significand is multiplied in: a piece times a rate
\* plus a carry stays within the model checker's integers.
LimbWidth == 13

\* The natural number a bit string of at most LimbWidth bits spells.
RECURSIVE BitsToNat(_)
BitsToNat(bits) ==
    LET n == Len(bits)
    IN  IF n = 0 THEN 0
        ELSE IF n = 1 THEN bits[1]
        ELSE BitsToNat(SubSeq(bits, 1, n \div 2)) * 2^(n - (n \div 2))
             + BitsToNat(SubSeq(bits, (n \div 2) + 1, n))

\* The low n binary digits of v, most significant first.
FixedBits(v, n) == [i \in 1..n |-> (v \div 2^(n - i)) % 2]

\* bits * k + carry on a bit string, as <<carry out, the low Len(bits) bits>>:
\* a short string is multiplied as a number, a longer one piece by piece, the
\* right piece first, its carry going into the left piece.
RECURSIVE TimesBits(_, _, _)
TimesBits(bits, k, carry) ==
    LET n == Len(bits)
    IN  IF n <= LimbWidth
        THEN LET t == BitsToNat(bits) * k + carry
             IN  <<t \div 2^n, FixedBits(t % 2^n, n)>>
        ELSE LET right == TimesBits(SubSeq(bits, (n \div 2) + 1, n), k, carry)
                 left  == TimesBits(SubSeq(bits, 1, n \div 2), k, right[1])
             IN  <<left[1], left[2] \o right[2]>>

\* The double nearest to x * k, for a number x and a positive natural k:
\* the operator * on x and a number holding k.
TimesNat(x, k) ==
    IF x.kind = "NaN" THEN NaN
    ELSE IF x.kind = "zero" THEN Zero
    ELSE LET p == TimesBits(x.bits, k, 0)
         IN  RoundToDouble(NatBits(p[1]) \o p[2], x.exp, FALSE)

\* -------------------------------------------------------- currency converter

\* The amounts the model's function-call arguments carry.
Amounts == {0, 1, 15}

\* The currency codes the model's function-call arguments carry; "XXX" is in
\* no rate table.
Codes == {"USD", "EUR", "XXX"}

\* The rates a table may give a code.
RateValues == {1, 11}

\* response.data.rates of a resolved rate request: a table over some of the
\* codes, or Undefined when the body has no rates field.
RateTables ==
    {[type |-> "object", table |-> t] :
        t \in UNION {[S -> RateValues] : S \in SUBSET {"USD", "EUR"}}}
    \cup {Undefined}

\* rates[code]: the rate, or Undefined for a code the table lacks (the
\* property name of an undefined code is "undefined", which no table has).
rateOf(rates, code) ==
    IF code.type = "string" /\ code.text \in DOMAIN rates.table
    THEN Num(rates.table[code.text])
    ELSE Undefined

\* (amount / rates[fromCurrency]) * rates[toCurrency]; arithmetic on
\* undefined yields NaN, and NaN propagates.
convertedAmount(amount, fromCurrency, toCurrency, rates) ==
    LET rf == rateOf(rates, fromCurrency)
        rt == rateOf(rates, toCurrency)
    IN  IF amount.type # "number" \/ rf.type # "number" \/ rt.type # "number"
        THEN NaN
        ELSE TimesNat(DivideNat(amount.nat, rf.nat), rt.nat)

\* `${convertedAmount} ${toCurrency}`: the number's decimal form (one form
\* per number, so kept as the number), a space, and the code.
convertResult(amount, fromCurrency, toCurrency, rates) ==
    [type     |-> "string",
     value    |-> convertedAmount(amount, fromCurrency, toCurrency, rates),
     currency |-> toCurrency]

\* Variant of apiKeyMissing: the guard is dropped.
apiKeyMissingNever(key) == FALSE

\* The guard !apiKey of convertCurrencies: undefined and "" are falsy.
apiKeyMissing(key) == key.type = "undefined" \/ key = Text("")

\* ------------------------------------------------------------ product search

\* How many matches searchProducts keeps.
SearchLimit == 2

\* Variant of searchResult: the slice is forgotten.
searchResultUnsliced(products, query) ==
    [type |-> "string", json |-> filterProducts(products, query)]

\* JSON.stringify(filteredProducts.slice(0, 2)): the array's JSON text,
\* kept as the array it encodes.
searchResult(products, query) ==
    [type |-> "string",
     json |-> sliceFromStart(filterProducts(products, query), SearchLimit)]

\* ------------------------------------------------------------------ errors

\* HttpStatus.INTERNAL_SERVER_ERROR
INTERNAL_SERVER_ERROR == 500

\* new HttpException(message, HttpStatus.INTERNAL_SERVER_ERROR)
HttpException(message) ==
    [name |-> "HttpException", status |-> INTERNAL_SERVER_ERROR, message |-> message]

\* What JSON.parse throws on text that is not JSON.
SyntaxError == [name |-> "SyntaxError", message |-> "Unexpected token in JSON"]

\* What reading a property of null throws.
TypeError == [name |-> "TypeError", message |-> "Cannot read properties of null"]

\* ------------------------------------------------------- completion messages

\* The user enquiries requests carry.
Enquiries == {Text("enquiry")}

\* The text contents a completion may carry.
Contents == {Text("text-1"), Text("text-2")}

\* The function names the model may select; "otherFunction" is declared nowhere.
FunctionNames == {"searchProducts", "convertCurrencies", "otherFunction"}

\* A parsed argument object; a property the text does not give is Undefined.
ArgObject(query, amount, fromCurrency, toCurrency) ==
    [type |-> "object", query |-> query, amount |-> amount,
     fromCurrency |-> fromCurrency, toCurrency |-> toCurrency]

\* The object {}.
EmptyObject == ArgObject(Undefined, Undefined, Undefined, Undefined)

\* function_call.arguments, a string: either no JSON text at all, or the JSON
\* text of `value`.
NotJson == [json |-> FALSE, value |-> Undefined]
JsonText(value) == [json |-> TRUE, value |-> value]

\* The argument strings that may come with a function name.
ArgumentStrings(name) ==
    {NotJson, JsonText(Null), JsonText(EmptyObject)}
    \cup (IF name = "searchProducts"
          THEN {JsonText(ArgObject(Str(q), Undefined, Undefined, Undefined)) : q \in Queries}
          ELSE {})
    \cup (IF name = "convertCurrencies"
          THEN {JsonText(ArgObject(Undefined, Num(a), Text(f), Text(t)))
                 : a \in Amounts, f \in Codes, t \in Codes}
          ELSE {})

\* choices[0].message of the first completion: text content and no
\* function_call, or a function_call with null content.
Messages ==
    {[type |-> "object", content |-> c, function_call |-> Undefined] : c \in Contents}
    \cup UNION {{[type |-> "object", content |-> Null,
                  function_call |-> [type |-> "object", name |-> n, arguments |-> a]]
                 : a \in ArgumentStrings(n)} : n \in FunctionNames}

\* choices[0].message of the second completion (no functions are declared).
FinalMessages ==
    {[type |-> "object", content |-> c, function_call |-> Undefined] : c \in Contents}

\* if (messageContent.function_call)
hasFunctionCall(msg) == msg.function_call.type # "undefined"

\* Variant of JSONparse: text that is not JSON is read as {}.
JSONparseLenient(text) ==
    [threw |-> FALSE, value |-> IF text.json THEN text.value ELSE EmptyObject]

\* JSON.parse(text): the value, or a thrown SyntaxError.
JSONparse(text) ==
    IF text.json THEN [threw |-> FALSE, value |-> text.value]
    ELSE [threw |-> TRUE, value |-> Undefined]

\* Variant of dispatch: the two branches call each other's function.
dispatchSwapped(name) ==
    IF name = "searchProducts" THEN "convertCurrencies"
    ELSE IF name = "convertCurrencies" THEN "searchProducts"
    ELSE "none"

\* Variant of dispatch: the chain ends in an else that converts.
dispatchElseConvert(name) ==
    IF name = "searchProducts" THEN "searchProducts" ELSE "convertCurrencies"

\* The if / else-if chain on functionCall.name: the local function to call,
\* "none" when no branch is taken.
dispatch(name) ==
    IF name = "searchProducts" THEN "searchProducts"
    ELSE IF name = "convertCurrencies" THEN "convertCurrencies"
    ELSE "none"

\* Variant of directReply: the message is returned, not its content.
directReplyMessage(msg) == msg

\* return messageContent.content
directReply(msg) == msg.content

\* return finalResponse.choices[0].message.content
finalReply(msg) == msg.content

\* The second request's user prompt: the enquiry, the chosen function's name
\* and `${result}`.
FinalPrompt(enquiry, name, res) ==
    [type |-> "string", enquiry |-> enquiry, name |-> name, result |-> res]

\* ------------------------------------------------------------------- state

\* One request is followed from the call of handleChat to its return or throw.
\* JavaScript runs a handler to completion between two awaits, so there is one
\* action per resumption: each covers everything the code does from the moment
\* an awaited request settles to the next request it awaits (or to the end).

VARIABLES
    pc,           \* where the request stands: idle, awaitFirst, awaitCsv,
                  \* awaitRates, awaitSecond, done (replied), failed (threw)
    apiKey,       \* configService.get('OPEN_EXCHANGE_API_KEY'): unset, empty or set
    userEnquiry,  \* handleChat's parameter
    message,      \* messageContent: the first completion's message
    args,         \* JSON.parse(functionCall.arguments)
    products,     \* the rows readCSVFile resolved with
    rates,        \* response.data.rates of the rate request
    result,       \* the local function's result
    finalPrompt,  \* the prompt of the second completion request
    finalMessage, \* the second completion's message
    reply,        \* what handleChat returned
    error,        \* what handleChat threw
    trace         \* the upstream calls and local functions started, in order

vars == <<pc, apiKey, userEnquiry, message, args, products, rates, result,
          finalPrompt, finalMessage, reply, error, trace>>

Init ==
    /\ pc = "idle"
    /\ apiKey \in {Undefined, Text(""), Text("app-id")}
    /\ userEnquiry = Undefined
    /\ message = Undefined
    /\ args = Undefined
    /\ products = Undefined
    /\ rates = Undefined
    /\ result = Undefined
    /\ finalPrompt = Undefined
    /\ finalMessage = Undefined
    /\ reply = Undefined
    /\ error = Undefined
    /\ trace = <<>>

\* throw err out of handleChat.
Throw(err) ==
    /\ pc' = "failed"
    /\ error' = err
    /\ UNCHANGED <<finalPrompt, finalMessage, reply>>

\* The second this.openai.chat.completions.create call is issued with the
\* prompt built from the selected function's name and res.
IssueSecond(name, res) ==
    /\ pc' = "awaitSecond"
    /\ result' = res
    /\ finalPrompt' = FinalPrompt(userEnquiry, name, res)
    /\ UNCHANGED <<finalMessage, reply, error>>

\* handleChat is called: the first completion request is issued.
handleChat ==
    /\ pc = "idle"
    /\ \E enquiry \in Enquiries : userEnquiry' = enquiry
    /\ pc' = "awaitFirst"
    /\ trace' = Append(trace, "completion")
    /\ UNCHANGED <<apiKey, message, args, products, rates, result,
                   finalPrompt, finalMessage, reply, error>>

\* The first completion request rejects: caught and rethrown.
FirstCompletionRejects ==
    /\ pc = "awaitFirst"
    /\ Throw(HttpException("Error fetching from OpenAI"))
    /\ UNCHANGED <<apiKey, userEnquiry, message, args, products, rates, result, trace>>

\* The first completion request resolves with msg: handleChat runs on to its
\* return, its throw or the next request it awaits.
FirstCompletionResolves ==
    /\ pc = "awaitFirst"
    /\ \E msg \in Messages :
         /\ message' = msg
         /\ IF ~hasFunctionCall(msg)
            THEN /\ pc' = "done"
                 /\ reply' = directReply(msg)
                 /\ UNCHANGED <<args, result, trace, finalPrompt, finalMessage, error>>
            ELSE LET parsed == JSONparse(msg.function_call.arguments)
                     target == dispatch(msg.function_call.name)
                 IN  IF parsed.threw
                     THEN /\ Throw(SyntaxError)
                          /\ UNCHANGED <<args, result, trace>>
                     ELSE /\ args' = parsed.value
                          /\ IF target # "none" /\ parsed.value.type = "null"
                             THEN /\ Throw(TypeError)
                                  /\ UNCHANGED <<result, trace>>
                             ELSE IF target = "searchProducts"
                             THEN /\ pc' = "awaitCsv"
                                  /\ trace' = trace \o <<"searchProducts", "readCSVFile">>
                                  /\ UNCHANGED <<result, finalPrompt, finalMessage, reply, error>>
                             ELSE IF target = "convertCurrencies"
                             THEN IF apiKeyMissing(apiKey)
                                  THEN /\ Throw(HttpException("Open Exchange Rates API key is missing"))
                                       /\ trace' = Append(trace, "convertCurrencies")
                                       /\ UNCHANGED result
                                  ELSE /\ pc' = "awaitRates"
                                       /\ trace' = trace \o <<"convertCurrencies", "axios.get">>
                                       /\ UNCHANGED <<result, finalPrompt, finalMessage, reply, error>>
                             ELSE /\ IssueSecond(msg.function_call.name, Undefined)
                                  /\ trace' = Append(trace, "completion")
    /\ UNCHANGED <<apiKey, userEnquiry, products, rates>>

\* readCSVFile rejects: searchProducts catches and rethrows.
CsvRejects ==
    /\ pc = "awaitCsv"
    /\ Throw(HttpException("Error reading CSV file"))
    /\ UNCHANGED <<apiKey, userEnquiry, message, args, products, rates, result, trace>>

\* readCSVFile resolves with rows: filterProducts runs inside the try block
\* (query.toLowerCase() throws on an undefined query), then handleChat issues
\* the second completion request.
CsvResolves ==
    /\ pc = "awaitCsv"
    /\ \E rows \in Catalogs :
         /\ products' = [type |-> "array", rows |-> rows]
         /\ IF args.query.type # "string"
            THEN /\ Throw(HttpException("Error reading CSV file"))
                 /\ UNCHANGED <<result, trace>>
            ELSE /\ IssueSecond(message.function_call.name,
                             searchResult(rows, args.query.chars))
                 /\ trace' = Append(trace, "completion")
    /\ UNCHANGED <<apiKey, userEnquiry, message, args, rates>>

\* axios.get rejects: convertCurrencies catches and rethrows.
RatesReject ==
    /\ pc = "awaitRates"
    /\ Throw(HttpException("Error fetching currency data"))
    /\ UNCHANGED <<apiKey, userEnquiry, message, args, products, rates, result, trace>>

\* axios.get resolves with a body whose rates field is table: the conversion
\* runs inside the try block (rates[...] throws when rates is undefined), then
\* handleChat issues the second completion request.
RatesResolve ==
    /\ pc = "awaitRates"
    /\ \E table \in RateTables :
         /\ rates' = table
         /\ IF table.type = "undefined"
            THEN /\ Throw(HttpException("Error fetching currency data"))
                 /\ UNCHANGED <<result, trace>>
            ELSE /\ IssueSecond(message.function_call.name,
                             convertResult(args.amount, args.fromCurrency,
                                           args.toCurrency, table))
                 /\ trace' = Append(trace, "completion")
    /\ UNCHANGED <<apiKey, userEnquiry, message, args, products>>

\* The second completion request rejects: caught and rethrown.
SecondCompletionRejects ==
    /\ pc = "awaitSecond"
    /\ Throw(HttpException("Error fetching final response from OpenAI"))
    /\ UNCHANGED <<apiKey, userEnquiry, message, args, products, rates, result, trace>>

\* The second completion request resolves with msg: its content is returned.
SecondCompletionResolves ==
    /\ pc = "awaitSecond"
    /\ \E msg \in FinalMessages :
         /\ finalMessage' = msg
         /\ reply' = finalReply(msg)
    /\ pc' = "done"
    /\ UNCHANGED <<apiKey, userEnquiry, message, args, products, rates, result,
                   finalPrompt, error, trace>>

Next ==
    \/ handleChat
    \/ FirstCompletionRejects
    \/ FirstCompletionResolves
    \/ CsvRejects
    \/ CsvResolves
    \/ RatesReject
    \/ RatesResolve
    \/ SecondCompletionRejects
    \/ SecondCompletionResolves

Spec == Init /\ [][Next]_vars


\* ------------------------------------------------------------------ claims

\* The first completion resolved with a message selecting a function.
Selected == message.type = "object" /\ message.function_call.type = "object"

\* The name of the selected function.
SelectedName == message.function_call.name

\* The selected function's argument string is JSON text.
Parseable == message.function_call.arguments.json

\* The names of the two local functions.
KnownNames == {"searchProducts", "convertCurrencies"}

\* The upstream request a local function makes.
RequestOf(name) == IF name = "searchProducts" THEN "readCSVFile" ELSE "axios.get"

\* How many times ev was started in this request.
Count(ev) == Cardinality({i \in DOMAIN trace : trace[i] = ev})

\* ev was started in this request.
Started(ev) == Count(ev) > 0

\* C1: when the first completion's message carries no function call, the
\* reply is that message's content and the first completion call is the only
\* upstream call of the request: no second completion, no catalog read, no
\* rate fetch, no local function.
C1_NoCallRepliesDirectly ==
    (message.type = "object" /\ message.function_call = Undefined)
        => /\ pc = "done"
           /\ reply = message.content
           /\ error = Undefined
           /\ trace = <<"completion">>
           /\ finalPrompt = Undefined /\ finalMessage = Undefined

C1_Witness ==
    /\ pc = "done"
    /\ message.function_call = Undefined
    /\ reply = Text("text-2")

\* C2: when the first completion selects one of the two known functions with
\* parseable arguments and the function succeeds (it produced a result), the
\* request's calls are exactly: first completion, the selected function and
\* its one upstream request, second completion -- the other function is
\* never started, nothing is started twice, there is no third completion --
\* and the string returned is the second completion's content.
C2_KnownFunctionRoundTrip ==
    (Selected /\ SelectedName \in KnownNames /\ Parseable /\ result.type = "string")
        => /\ trace = <<"completion", SelectedName, RequestOf(SelectedName), "completion">>
           /\ pc \in {"awaitSecond", "done", "failed"}
           /\ finalPrompt.name = SelectedName /\ finalPrompt.result = result
           /\ pc = "done" => (finalMessage.type = "object" /\ reply = finalMessage.content)
           /\ pc # "done" => reply = Undefined

C2_Witness ==
    /\ Selected /\ SelectedName = "searchProducts"
    /\ result.type = "string" /\ Len(result.json) = 1
    /\ pc = "done"
    /\ reply = Text("text-1")

\* C3: when the selected function's argument string is not JSON, the request
\* fails with the parser's error, no local function is started and no second
\* completion call is issued.
C3_MalformedArgumentsFail ==
    (Selected /\ ~Parseable)
        => /\ pc = "failed"
           /\ error = SyntaxError
           /\ trace = <<"completion">>
           /\ result = Undefined /\ reply = Undefined /\ finalPrompt = Undefined

C3_Witness ==
    /\ Selected /\ SelectedName = "convertCurrencies" /\ ~Parseable
    /\ pc = "failed"
    /\ error.name = "SyntaxError"

\* C4: when the exchange-rate key is not configured, convertCurrencies throws
\* the missing-key exception and never starts the rate request, whatever the
\* amount and the two codes.
C4_MissingKeyNoRequest ==
    (Started("convertCurrencies") /\ apiKey = Undefined)
        => /\ pc = "failed"
           /\ error = HttpException("Open Exchange Rates API key is missing")
           /\ ~Started("axios.get")
           /\ rates = Undefined /\ result = Undefined
           /\ Count("completion") = 1

C4_Witness ==
    /\ Started("convertCurrencies") /\ apiKey = Undefined
    /\ args.type = "object" /\ args.amount = Num(15)
    /\ args.fromCurrency = Text("EUR") /\ args.toCurrency = Text("USD")
    /\ pc = "failed"

\* searchProducts has produced its result from the rows read.
Searched ==
    /\ Selected /\ SelectedName = "searchProducts"
    /\ products.type = "array" /\ result.type = "string"

\* The positions of the catalog rows the filter callback accepts.
MatchingRows ==
    {j \in 1..Len(products.rows) : productMatches(products.rows[j], args.query.chars)}

\* C5: searchProducts returns at most 2 rows, and they are the first two (or
\* fewer) catalog rows satisfying the match predicate, in catalog order.
C5_FirstTwoMatchesInOrder ==
    Searched =>
        LET r == result.json
            c == products.rows
        IN  /\ Len(r) <= 2
            /\ \E idx \in [1..Len(r) -> 1..Len(c)] :
                 /\ \A k \in 1..Len(r) : r[k] = c[idx[k]] /\ idx[k] \in MatchingRows
                 /\ \A k \in 1..(Len(r) - 1) : idx[k] < idx[k + 1]
                 /\ \A j \in MatchingRows :
                      \/ \E k \in 1..Len(r) : idx[k] = j
                      \/ Len(r) = 2 /\ j > idx[2]

C5_Witness ==
    /\ Searched
    /\ Len(products.rows) = 3 /\ MatchingRows = {1, 2, 3}
    /\ products.rows[1] # products.rows[2] /\ products.rows[2] # products.rows[3]
    /\ Len(result.json) = 2

\* The whitespace-separated terms of s: its maximal runs of non-whitespace
\* characters.
Terms(s) ==
    {SubSeq(s, i, j) : <<i, j>> \in
        {p \in (1..Len(s)) \X (1..Len(s)) :
            /\ p[1] <= p[2]
            /\ \A k \in p[1]..p[2] : ~IsWhitespace(s[k])
            /\ (p[1] = 1 \/ IsWhitespace(s[p[1] - 1]))
            /\ (p[2] = Len(s) \/ IsWhitespace(s[p[2] + 1]))}}

\* Some whitespace-separated term of the query occurs, case-insensitively, in
\* the product's combined text.
SomeTermOccurs(product, query) ==
    \E t \in Terms(toLowerCase(query)) : includes(combinedText(product), t)

\* C6: for every catalog and every query, the empty query and queries with
\* leading or trailing whitespace included, a row is kept only if some
\* whitespace-separated term of the query occurs case-insensitively in its
\* combined text; a query none of whose terms matches yields no rows.
C6_KeptOnlyIfSomeTermOccurs ==
    Searched =>
        /\ \A k \in 1..Len(result.json) : SomeTermOccurs(result.json[k], args.query.chars)
        /\ (\A j \in 1..Len(products.rows) :
                ~SomeTermOccurs(products.rows[j], args.query.chars))
               => result.json = <<>>

\* convertCurrencies got past its rate request (which resolved or rejected).
RateRequestOver == Started("axios.get") /\ pc # "awaitRates"

\* The code is a key of the rate table received.
InTable(code) ==
    rates.type = "object" /\ code.type = "string" /\ code.text \in DOMAIN rates.table

\* C7: convertCurrencies fails with the rate-fetch exception, returning no
\* result string, whenever the rate fetch fails or fromCurrency or toCurrency
\* is absent from the rate table received.
C7_AbsentCodeFails ==
    (RateRequestOver /\ (~InTable(args.fromCurrency) \/ ~InTable(args.toCurrency)))
        => /\ pc = "failed"
           /\ error = HttpException("Error fetching currency data")
           /\ result = Undefined

\* C8: convertCurrencies called with fromCurrency equal to toCurrency returns
\* the amount unchanged: the value part of "<value> <toCurrency>" is the
\* amount.
C8_SameCurrencyKeepsAmount ==
    (/\ Started("convertCurrencies") /\ result.type = "string"
     /\ args.amount.type = "number" /\ args.fromCurrency.type = "string"
     /\ args.fromCurrency = args.toCurrency)
        => /\ result.value = FromNat(args.amount.nat)
           /\ result.currency = args.toCurrency

\* C9: every failure of a request is rethrown as the uniform internal-server
\* fault (an HttpException with status 500); nothing is retried (no call is
\* started twice, the second completion aside), no later step runs after the
\* failure (a failed first completion is followed by nothing, a failed local
\* function by no second completion) and no reply is returned.
C9_FailuresAreUniformFaults ==
    pc = "failed" =>
        /\ error.name = "HttpException" /\ error.status = INTERNAL_SERVER_ERROR
        /\ reply = Undefined /\ finalMessage = Undefined
        /\ Count("completion") <= 2
        /\ \A ev \in {"searchProducts", "convertCurrencies", "readCSVFile", "axios.get"} :
               Count(ev) <= 1
        /\ error.message = "Error fetching from OpenAI" => trace = <<"completion">>
        /\ error.message \in {"Error reading CSV file", "Error fetching currency data",
                              "Open Exchange Rates API key is missing"}
               => Count("completion") = 1

\* C10: when the first completion selects a function that is neither
\* searchProducts nor convertCurrencies, with parseable arguments, no local
\* function and no upstream request of one is started, the dispatch result is
\* undefined, and the request goes on: exactly one second completion call is
\* issued, its prompt embedding the undefined result, and its content is the
\* reply; the request fails only if that second call itself does.
C10_UnknownFunctionFallsThrough ==
    (Selected /\ SelectedName \notin KnownNames /\ Parseable)
        => /\ trace = <<"completion", "completion">>
           /\ result = Undefined
           /\ finalPrompt.type = "string"
           /\ finalPrompt.name = SelectedName /\ finalPrompt.result = Undefined
           /\ pc \in {"awaitSecond", "done", "failed"}
           /\ pc = "done" => (finalMessage.type = "object" /\ reply = finalMessage.content)
           /\ pc = "failed"
                => error = HttpException("Error fetching final response from OpenAI")

C10_Witness ==
    /\ Selected /\ SelectedName = "otherFunction"
    /\ args = Null
    /\ pc = "done"
    /\ reply = Text("text-1")

====
